---- MODULE Spec2Model ----
(***************************************************************************)
(* Matrix-Processor: the matrix computation of                             *)
(* src/src/components/TabSelector.jsx (computeMatrices).                   *)
(*                                                                         *)
(* JavaScript strings are modelled as sequences of UTF-16 code units       *)
(* (<<97>> is "a", <<32, 97>> is " a"), so that String.prototype.trim,     *)
(* template concatenation and the default Array.prototype.sort order are   *)
(* computed, not assumed.  A raw cell value is a record                    *)
(*   [t |-> "str", s |-> code units, n |-> 0]   a string                   *)
(*   [t |-> "num", s |-> <<>>,      n |-> k]    the number k               *)
(*   [t |-> "undef", s |-> <<>>,    n |-> 0]    undefined (no such key)    *)
(* Column names are TLA+ strings; the property keys "undefined" and "null" *)
(* stand for the JavaScript values undefined and null used as a key.       *)
(***************************************************************************)
EXTENDS Integers, Sequences, FiniteSets, TLC

VARIABLES fileData, columnSelections, matrixConfig, pc, result

\* The state of the wizard (App and the component shown at its step) and the
\* workbook the last export handed to the spreadsheet library.
VARIABLES step, uploadedFiles, toggles, selectedTabs, selections, configs, alerted, workbook

uiVars == <<step, uploadedFiles, toggles, selectedTabs, selections, configs, alerted, workbook>>

vars == <<fileData, columnSelections, matrixConfig, pc, result, uiVars>>

-----------------------------------------------------------------------------
(* JavaScript values *)

Str(s) == [t |-> "str", s |-> s, n |-> 0]
Num(k) == [t |-> "num", s |-> <<>>, n |-> k]
UndefinedValue == [t |-> "undef", s |-> <<>>, n |-> 0]

Undefined == "undefined"
Null == "null"

Range(seq) == {seq[i] : i \in 1..Len(seq)}

\* ToBoolean of a raw cell value: '' , 0 and undefined are falsy.
Truthy(v) ==
    CASE v.t = "str" -> v.s # <<>>
      [] v.t = "num" -> v.n # 0
      [] OTHER -> FALSE

\* ToBoolean of a column selection (a header name, null or undefined).
TruthyCol(c) == c \notin {Undefined, Null, ""}

\* Number.prototype.toString for a non-negative integer.
RECURSIVE NumToString(_)
NumToString(k) ==
    IF k < 10 THEN <<48 + k>>
    ELSE NumToString(k \div 10) \o <<48 + (k % 10)>>

\* String(v) for a raw cell value.
ToStr(v) ==
    CASE v.t = "str" -> v.s
      [] v.t = "num" -> NumToString(v.n)
      [] OTHER -> <<117, 110, 100, 101, 102, 105, 110, 101, 100>>

\* The code units String.prototype.trim strips (those below U+0080).
WhiteSpace == {9, 10, 11, 12, 13, 32}

RECURSIVE TrimStart(_)
TrimStart(s) ==
    IF s # <<>> /\ Head(s) \in WhiteSpace THEN TrimStart(Tail(s)) ELSE s

RECURSIVE TrimEnd(_)
TrimEnd(s) ==
    IF s # <<>> /\ s[Len(s)] \in WhiteSpace
    THEN TrimEnd(SubSeq(s, 1, Len(s) - 1))
    ELSE s

trim(s) == TrimEnd(TrimStart(s))

\* row[col]: the value under the key, undefined when the row has no such key.
Get(row, col) == IF col \in DOMAIN row THEN row[col] ELSE UndefinedValue

\* Mutant: String(row[col]).trim(), without the fallback to ''.
OrEmptyOmitted(v) == v

\* v || ''
OrEmpty(v) == IF Truthy(v) THEN v ELSE Str(<<>>)

\* String(row[col] || '').trim()
cellValue(row, col) == trim(ToStr(OrEmpty(Get(row, col))))

\* secondaryXCol ? String(row[secondaryXCol] || '').trim() : null
\* (null is modelled as the one-element sequence <<-1>>, which is no string)
NullString == <<-1>>
secondaryValue(row, secondaryXCol) ==
    IF TruthyCol(secondaryXCol) THEN cellValue(row, secondaryXCol) ELSE NullString

\* Mutant: the values are pushed to an array, duplicates included.
SetAddDuplicates(set, v) == Append(set, v)

\* Set.prototype.add on a Set kept in insertion order.
SetAdd(set, v) == IF v \in Range(set) THEN set ELSE Append(set, v)

\* The default sort order: strings compared by UTF-16 code units.
RECURSIVE StrLess(_, _)
StrLess(a, b) ==
    IF b = <<>> THEN FALSE
    ELSE IF a = <<>> THEN TRUE
    ELSE IF Head(a) # Head(b) THEN Head(a) < Head(b)
    ELSE StrLess(Tail(a), Tail(b))

RECURSIVE InsertSorted(_, _)
InsertSorted(sorted, v) ==
    IF sorted = <<>> THEN <<v>>
    ELSE IF StrLess(v, Head(sorted)) THEN <<v>> \o sorted
    ELSE <<Head(sorted)>> \o InsertSorted(Tail(sorted), v)

RECURSIVE InsertAll(_, _)
InsertAll(sorted, arr) ==
    IF arr = <<>> THEN sorted
    ELSE InsertAll(InsertSorted(sorted, Head(arr)), Tail(arr))

\* Mutant: the array is left in the Set's insertion order.
sortOmitted(arr) == arr

\* Array.from(set).sort()
sort(arr) == InsertAll(<<>>, arr)

\* Array.prototype.indexOf, 0-based, -1 when absent.
indexOf(arr, v) ==
    IF v \in Range(arr)
    THEN (CHOOSE i \in 1..Len(arr) : arr[i] = v /\ \A j \in 1..(i - 1) : arr[j] # v) - 1
    ELSE -1

\* `${fileIndex}-${sheetName}`
selectionKey(source) == NumToString(source.fileIndex) \o <<45>> \o source.sheetName

\* columnSelections[key]?.field
selected(cs, key, field) ==
    IF key \in DOMAIN cs THEN cs[key][field] ELSE Undefined

\* fileData[source.fileIndex] is undefined: file.sheets throws a TypeError.
noFile(fd, source) == (source.fileIndex + 1) \notin DOMAIN fd

\* file.sheets.find(s => s.name === source.sheetName): the position of the
\* first sheet of that name in the file, 0 for undefined.
findSheet(fd, source) ==
    LET sheets == fd[source.fileIndex + 1].sheets
        hits == {i \in 1..Len(sheets) : sheets[i].name = source.sheetName}
    IN IF hits = {} THEN 0 ELSE CHOOSE i \in hits : \A j \in hits : i <= j

sheetOf(fd, source) == fd[source.fileIndex + 1].sheets[findSheet(fd, source)]

-----------------------------------------------------------------------------
(* computeMatrices *)

\* if (secondaryXVal): a non-empty string (null and '' are falsy).
TruthyStr(s) == s # <<>> /\ s # NullString

\* " - " of the matrix-name templates.
Dash == <<32, 45, 32>>

\* new Set() three times: the Y, X and secondary values, in insertion order.
emptyValues == [y |-> <<>>, x |-> <<>>, s |-> <<>>]

\* The body of the value-collecting sheet.data.forEach.
addRowValues(acc, row, yCol, xCol, secondaryXCol) ==
    LET yVal == cellValue(row, yCol)
        xVal == cellValue(row, xCol)
        secondaryXVal == secondaryValue(row, secondaryXCol)
    IN [y |-> IF TruthyStr(yVal) THEN SetAdd(acc.y, yVal) ELSE acc.y,
        x |-> IF TruthyStr(xVal) THEN SetAdd(acc.x, xVal) ELSE acc.x,
        s |-> IF TruthyStr(secondaryXVal) THEN SetAdd(acc.s, secondaryXVal) ELSE acc.s]

RECURSIVE collectRows(_, _, _, _, _)
collectRows(acc, rows, yCol, xCol, secondaryXCol) ==
    IF rows = <<>> THEN acc
    ELSE collectRows(addRowValues(acc, Head(rows), yCol, xCol, secondaryXCol),
                     Tail(rows), yCol, xCol, secondaryXCol)

\* Mutant: only the first source's values reach the shared Sets.
collectFirstSource(acc, sources, fd, cs) ==
    IF sources = <<>> \/ findSheet(fd, Head(sources)) = 0 THEN acc
    ELSE collectRows(acc, sheetOf(fd, Head(sources)).data,
                     selected(cs, selectionKey(Head(sources)), "yAxis"),
                     selected(cs, selectionKey(Head(sources)), "xAxis"),
                     selected(cs, selectionKey(Head(sources)), "secondaryXAxis"))

\* config.sources.forEach(source => ...) collecting into the shared Sets;
\* a source whose sheet is not found is skipped.
RECURSIVE collectSources(_, _, _, _)
collectSources(acc, sources, fd, cs) ==
    IF sources = <<>> THEN acc
    ELSE LET source == Head(sources)
             key == selectionKey(source)
             next == IF findSheet(fd, source) = 0 THEN acc
                     ELSE collectRows(acc, sheetOf(fd, source).data,
                                      selected(cs, key, "yAxis"),
                                      selected(cs, key, "xAxis"),
                                      selected(cs, key, "secondaryXAxis"))
         IN collectSources(next, Tail(sources), fd, cs)

\* sortedY.map(() => sortedX.map(() => 0))
zeroData(sortedY, sortedX) ==
    [i \in 1..Len(sortedY) |-> [j \in 1..Len(sortedX) |-> 0]]

\* Mutant: the cell counts the rows that hit it.
markRowCounting(data, row, yCol, xCol, secondaryXCol, sortedY, sortedX, split, secX) ==
    LET yVal == cellValue(row, yCol)
        xVal == cellValue(row, xCol)
        secondaryXVal == secondaryValue(row, secondaryXCol)
        yIdx == indexOf(sortedY, yVal)
        xIdx == indexOf(sortedX, xVal)
    IN IF /\ TruthyStr(yVal)
          /\ TruthyStr(xVal)
          /\ (split => secondaryXVal = secX)
          /\ yIdx >= 0
          /\ xIdx >= 0
       THEN [data EXCEPT ![yIdx + 1][xIdx + 1] = @ + 1]
       ELSE data

\* Mutant: a row of a source without a secondary column is marked in every
\* per-secondary-value matrix.
markRowWithoutSecondary(data, row, yCol, xCol, secondaryXCol, sortedY, sortedX, split, secX) ==
    LET yVal == cellValue(row, yCol)
        xVal == cellValue(row, xCol)
        secondaryXVal == secondaryValue(row, secondaryXCol)
        yIdx == indexOf(sortedY, yVal)
        xIdx == indexOf(sortedX, xVal)
    IN IF /\ TruthyStr(yVal)
          /\ TruthyStr(xVal)
          /\ (split => secondaryXVal \in {secX, NullString})
          /\ yIdx >= 0
          /\ xIdx >= 0
       THEN [data EXCEPT ![yIdx + 1][xIdx + 1] = 1]
       ELSE data

\* The body of the marking sheet.data.forEach; split is TRUE in the
\* per-secondary-value branches, where the row must also carry secX.
markRow(data, row, yCol, xCol, secondaryXCol, sortedY, sortedX, split, secX) ==
    LET yVal == cellValue(row, yCol)
        xVal == cellValue(row, xCol)
        secondaryXVal == secondaryValue(row, secondaryXCol)
        yIdx == indexOf(sortedY, yVal)
        xIdx == indexOf(sortedX, xVal)
    IN IF /\ TruthyStr(yVal)
          /\ TruthyStr(xVal)
          /\ (split => secondaryXVal = secX)
          /\ yIdx >= 0
          /\ xIdx >= 0
       THEN [data EXCEPT ![yIdx + 1][xIdx + 1] = 1]
       ELSE data

RECURSIVE markRows(_, _, _, _, _, _, _, _, _)
markRows(data, rows, yCol, xCol, secondaryXCol, sortedY, sortedX, split, secX) ==
    IF rows = <<>> THEN data
    ELSE markRows(markRow(data, Head(rows), yCol, xCol, secondaryXCol,
                          sortedY, sortedX, split, secX),
                  Tail(rows), yCol, xCol, secondaryXCol, sortedY, sortedX, split, secX)

\* config.sources.forEach(source => ...) marking intersections.
RECURSIVE markSources(_, _, _, _, _, _, _, _)
markSources(data, sources, fd, cs, sortedY, sortedX, split, secX) ==
    IF sources = <<>> THEN data
    ELSE LET source == Head(sources)
             key == selectionKey(source)
             next == IF findSheet(fd, source) = 0 THEN data
                     ELSE markRows(data, sheetOf(fd, source).data,
                                   selected(cs, key, "yAxis"),
                                   selected(cs, key, "xAxis"),
                                   selected(cs, key, "secondaryXAxis"),
                                   sortedY, sortedX, split, secX)
         IN markSources(next, Tail(sources), fd, cs, sortedY, sortedX, split, secX)

\* A merge branch that never looks for a secondary column.
hasSecondaryXNever(cs, config) == FALSE

\* config.sources.some(source => !!columnSelections[key]?.secondaryXAxis)
hasSecondaryX(cs, config) ==
    \E i \in 1..Len(config.sources) :
        TruthyCol(selected(cs, selectionKey(config.sources[i]), "secondaryXAxis"))

\* The merge branch: the matrices one config with merge = true pushes.
\* sortedSecondaryX is null without a secondary column; null and [] both
\* fail the one test that reads it, and are modelled as <<>>.
mergedMatrices(fd, cs, config) ==
    LET values == collectSources(emptyValues, config.sources, fd, cs)
        sortedY == sort(values.y)
        sortedX == sort(values.x)
        sortedSecondaryX == IF hasSecondaryX(cs, config) THEN sort(values.s) ELSE <<>>
    IN IF Len(sortedSecondaryX) > 0
       THEN [k \in 1..Len(sortedSecondaryX) |->
                [name |-> config.name \o Dash \o sortedSecondaryX[k],
                 yAxis |-> sortedY,
                 xAxis |-> sortedX,
                 data |-> markSources(zeroData(sortedY, sortedX), config.sources, fd, cs,
                                      sortedY, sortedX, TRUE, sortedSecondaryX[k])]]
       ELSE << [name |-> config.name,
                yAxis |-> sortedY,
                xAxis |-> sortedX,
                data |-> markSources(zeroData(sortedY, sortedX), config.sources, fd, cs,
                                     sortedY, sortedX, FALSE, NullString)] >>

\* The independent branch for one source: the matrices it pushes, none when
\* its sheet is not found.
independentMatrices(fd, cs, source) ==
    IF findSheet(fd, source) = 0 THEN <<>>
    ELSE
    LET sheet == sheetOf(fd, source)
        key == selectionKey(source)
        yCol == selected(cs, key, "yAxis")
        xCol == selected(cs, key, "xAxis")
        secondaryXCol == selected(cs, key, "secondaryXAxis")
        values == collectRows(emptyValues, sheet.data, yCol, xCol, secondaryXCol)
        sortedY == sort(values.y)
        sortedX == sort(values.x)
        sortedSecondaryX == IF TruthyCol(secondaryXCol) THEN sort(values.s) ELSE <<>>
        prefix == source.fileName \o Dash \o source.sheetName
    IN IF Len(sortedSecondaryX) > 0
       THEN [k \in 1..Len(sortedSecondaryX) |->
                [name |-> prefix \o Dash \o sortedSecondaryX[k],
                 yAxis |-> sortedY,
                 xAxis |-> sortedX,
                 data |-> markRows(zeroData(sortedY, sortedX), sheet.data,
                                   yCol, xCol, secondaryXCol,
                                   sortedY, sortedX, TRUE, sortedSecondaryX[k])]]
       ELSE << [name |-> prefix,
                yAxis |-> sortedY,
                xAxis |-> sortedX,
                data |-> markRows(zeroData(sortedY, sortedX), sheet.data,
                                  yCol, xCol, secondaryXCol,
                                  sortedY, sortedX, FALSE, NullString)] >>

RECURSIVE independentSources(_, _, _)
independentSources(fd, cs, sources) ==
    IF sources = <<>> THEN <<>>
    ELSE independentMatrices(fd, cs, Head(sources))
             \o independentSources(fd, cs, Tail(sources))

\* The independent branch with every name prefixed by the config's name.
configMatricesNamed(fd, cs, config) ==
    IF config.merge THEN mergedMatrices(fd, cs, config)
    ELSE LET pushed == independentSources(fd, cs, config.sources)
         IN [k \in 1..Len(pushed) |->
                [pushed[k] EXCEPT !.name = config.name \o Dash \o @]]

\* The body of matrixConfig.forEach: what one config pushes.
configMatrices(fd, cs, config) ==
    IF config.merge THEN mergedMatrices(fd, cs, config)
    ELSE independentSources(fd, cs, config.sources)

RECURSIVE allMatrices(_, _, _)
allMatrices(fd, cs, mc) ==
    IF mc = <<>> THEN <<>>
    ELSE configMatrices(fd, cs, Head(mc)) \o allMatrices(fd, cs, Tail(mc))

\* Some source names a file index with no file: file.sheets throws.
throws(fd, mc) ==
    \E c \in 1..Len(mc) : \E i \in 1..Len(mc[c].sources) : noFile(fd, mc[c].sources[i])

\* computeMatrices(fileData, selectedTabs, columnSelections, matrixConfig);
\* selectedTabs is not read by the code.  The outcome is the returned array,
\* or the TypeError thrown out of the function.
computeMatrices(fd, cs, mc) ==
    IF throws(fd, mc) THEN [threw |-> TRUE, matrices |-> <<>>]
    ELSE [threw |-> FALSE, matrices |-> allMatrices(fd, cs, mc)]

-----------------------------------------------------------------------------
(* processFiles *)

\* String.prototype.endsWith
endsWith(s, suffix) ==
    /\ Len(s) >= Len(suffix)
    /\ SubSeq(s, Len(s) - Len(suffix) + 1, Len(s)) = suffix

\* '.csv'
CsvSuffix == <<46, 99, 115, 118>>

\* array[idx], undefined past the end of the array.
At(array, idx) == IF idx \in DOMAIN array THEN array[idx] ELSE UndefinedValue

\* headers.forEach((header, idx) => { obj[header] = row[idx] || '' }): one
\* key per header, the last column of a repeated header winning.
rowObject(headers, row) ==
    [h \in Range(headers) |->
        LET idx == CHOOSE i \in DOMAIN headers :
                       /\ headers[i] = h
                       /\ \A j \in DOMAIN headers : headers[j] = h => j <= i
        IN OrEmpty(At(row, idx))]

\* The body of workbook.SheetNames.forEach: the sheet records pushed for one
\* sheet, none when sheet_to_json gave no row.
sheetRecords(sheetName, jsonData) ==
    IF Len(jsonData) > 0
    THEN << [name |-> sheetName,
             headers |-> jsonData[1],
             data |-> [k \in 1..(Len(jsonData) - 1) |->
                          rowObject(jsonData[1], jsonData[k + 1])]] >>
    ELSE <<>>

RECURSIVE sheetsOf(_, _)
sheetsOf(SheetNames, Sheets) ==
    IF SheetNames = <<>> THEN <<>>
    ELSE sheetRecords(Head(SheetNames), Sheets[Head(SheetNames)])
         \o sheetsOf(Tail(SheetNames), Sheets)

\* One turn of the loop over the files.  file.parsed is what XLSX.read and
\* sheet_to_json return for the file: the sheet names and, per sheet, the
\* rows as arrays.
processFile(file) ==
    [fileName |-> file.name,
     fileType |-> IF endsWith(file.name, CsvSuffix) THEN "csv" ELSE "excel",
     sheets |-> sheetsOf(file.parsed.SheetNames, file.parsed.Sheets)]

\* processFiles(files); it throws when reading one of the files throws.
processFiles(fs) ==
    IF \E i \in DOMAIN fs : ~fs[i].readable
    THEN [threw |-> TRUE, processedFiles |-> <<>>]
    ELSE [threw |-> FALSE, processedFiles |-> [i \in DOMAIN fs |-> processFile(fs[i])]]

-----------------------------------------------------------------------------

(* exportToExcel *)

\* Excel's limit on the length of a sheet name.
SheetNameLimit == 31

\* The width given to every column.
maxWidth == 15

\* Mutant: the whole matrix name is used as the sheet name.
substringOmitted(s, from, to) == s

\* String.prototype.substring(from, to) for 0 <= from <= to.
substring(s, from, to) ==
    SubSeq(s, from + 1, IF to < Len(s) THEN to ELSE Len(s))

\* rows: ['', ...matrix.xAxis], then [yVal, ...matrix.data[yIdx]] per Y label.
sheetRows(matrix) ==
    << <<Str(<<>>)>> \o [j \in 1..Len(matrix.xAxis) |-> Str(matrix.xAxis[j])] >>
    \o [yIdx \in 1..Len(matrix.yAxis) |->
          <<Str(matrix.yAxis[yIdx])>>
          \o [j \in 1..Len(matrix.data[yIdx]) |-> Num(matrix.data[yIdx][j])]]

\* worksheet['!cols']
sheetCols(matrix) == [j \in 1..(1 + Len(matrix.xAxis)) |-> [wch |-> maxWidth]]

\* Mutant: a matrix whose sheet name is already in the workbook is left out.
bookAppendDistinct(book, matrix) ==
    IF \E k \in DOMAIN book :
          book[k].name = substring(matrix.name, 0, SheetNameLimit)
    THEN book
    ELSE Append(book, [name |-> substring(matrix.name, 0, SheetNameLimit),
                       rows |-> sheetRows(matrix),
                       cols |-> sheetCols(matrix)])

\* The body of matrices.forEach: the sheet handed to book_append_sheet under
\* matrix.name.substring(0, 31), the workbook being the sheets so handed over.
bookAppend(book, matrix) ==
    Append(book, [name |-> substring(matrix.name, 0, SheetNameLimit),
                  rows |-> sheetRows(matrix),
                  cols |-> sheetCols(matrix)])

RECURSIVE bookOf(_, _)
bookOf(book, matrices) ==
    IF matrices = <<>> THEN book
    ELSE bookOf(bookAppend(book, Head(matrices)), Tail(matrices))

\* .replace(/[:.]/g, '-')
dashed(s) == [k \in DOMAIN s |-> IF s[k] \in {58, 46} THEN 45 ELSE s[k]]

\* .slice(0, -5)
sliceOffFive(s) == SubSeq(s, 1, Len(s) - 5)

\* `matrices_${timestamp}.xlsx`, now being new Date().toISOString()
exportFilename(now) ==
    <<109, 97, 116, 114, 105, 99, 101, 115, 95>>
    \o sliceOffFive(dashed(now))
    \o <<46, 120, 108, 115, 120>>

\* exportToExcel(matrices): the workbook and the file name handed to
\* XLSX.writeFile, or an exception when the library throws one.
exportToExcel(matrices, now, libraryThrows) ==
    IF libraryThrows
    THEN [threw |-> TRUE, filename |-> <<>>, sheets |-> <<>>]
    ELSE [threw |-> FALSE, filename |-> exportFilename(now),
          sheets |-> bookOf(<<>>, matrices)]

\* Mutant: the rows are built in place, each row of matrix.data itself
\* gaining a leading cell.
matricesUnshifted(matrices) ==
    [k \in DOMAIN matrices |->
        [matrices[k] EXCEPT !.data =
            [i \in DOMAIN @ |-> <<1>> \o @[i]]]]

\* The matrices after exportToExcel(matrices): the rows are built with
\* spreads into new arrays, so the argument is left as it was.
matricesAfterExport(matrices) == matrices

-----------------------------------------------------------------------------

(* The inputs explored: the arguments of the exported function, any parsed *)
(* sheets (rows of strings and numbers) with validated selections.         *)

\* The rows of all sheets together number at most MaxRows.
MaxRows == 2

\* One uploaded workbook "F" with the sheets "A" (headers Y, X, S) and "B"
\* (headers Y, X).
FileName == <<70>>
SheetA == <<65>>
SheetB == <<66>>
SheetZ == <<90>>

\* Rows of sheet A.  Y is " a" or the number 0; X is '' or the number 7;
\* S is '', "0", " r" or the number 0.
RowsA ==
    {[Y |-> y, X |-> x, S |-> s] :
        y \in {Str(<<32, 97>>), Num(0)},
        x \in {Str(<<>>), Num(7)},
        s \in {Str(<<>>), Str(<<48>>), Str(<<32, 114>>), Num(0)}}

\* Rows of sheet B.  Y is "a" or "b"; X is "x" or "z ".
RowsB ==
    {[Y |-> y, X |-> x] :
        y \in {Str(<<97>>), Str(<<98>>)},
        x \in {Str(<<120>>), Str(<<122, 32>>)}}

SplitsOfRows == {<<i, j>> \in (0..MaxRows) \X (0..MaxRows) : i + j <= MaxRows}

files(dataA, dataB) ==
    << [fileName |-> FileName,
        sheets |-> << [name |-> SheetA, headers |-> <<"Y", "X", "S">>, data |-> dataA],
                      [name |-> SheetB, headers |-> <<"Y", "X">>, data |-> dataB] >>] >>

FileDatas ==
    UNION {{files(a, b) : a \in [1..ij[1] -> RowsA], b \in [1..ij[2] -> RowsB]} :
           ij \in SplitsOfRows}

src(fileIndex, sheetName) ==
    [fileIndex |-> fileIndex, sheetName |-> sheetName, fileName |-> FileName]

\* Source lists: resolvable sources, a sheet name the file does not have
\* ("Z"), and a file index with no file (1).
SourceLists ==
    { <<src(0, SheetA)>>,
      <<src(0, SheetA), src(0, SheetB)>>,
      <<src(0, SheetB), src(0, SheetZ), src(0, SheetA)>>,
      <<src(0, SheetZ)>>,
      <<src(0, SheetZ), src(0, SheetA)>>,
      <<src(0, SheetA), src(1, SheetA)>> }

MatrixName == <<77>>

MatrixConfigs ==
    {<<[name |-> MatrixName, merge |-> m, sources |-> sl]>> :
        m \in BOOLEAN, sl \in SourceLists}
    \cup
    {<<[name |-> MatrixName, merge |-> TRUE,
        sources |-> <<src(0, SheetA), src(0, SheetB)>>],
       [name |-> <<78>>, merge |-> FALSE,
        sources |-> <<src(0, SheetA), src(0, SheetZ), src(0, SheetB)>>]>>}

\* Validated selections: Y and X chosen for both sheets, the secondary axis
\* of sheet A either "None" (null) or column S.
ColumnSelections ==
    {[k \in {selectionKey(src(0, SheetA)), selectionKey(src(0, SheetB))} |->
        IF k = selectionKey(src(0, SheetA))
        THEN [yAxis |-> "Y", xAxis |-> "X", secondaryXAxis |-> sec]
        ELSE [yAxis |-> "Y", xAxis |-> "X", secondaryXAxis |-> Null]] :
     sec \in {Null, "S"}}

NoResult == [threw |-> FALSE, matrices |-> <<>>]

\* No file written yet.
NoWorkbook == [written |-> FALSE, filename |-> <<>>, sheets |-> <<>>]

\* An object without keys; an object is modelled by its entries in insertion
\* order.
EmptyObject == <<>>

\* No alert shown.
NoAlert == ""

\* The useState initial values of App, TabSelector, ColumnSelector and
\* MatrixConfigurator, and no file written.
uiInitial ==
    /\ step = 1
    /\ uploadedFiles = <<>>
    /\ toggles = EmptyObject
    /\ selectedTabs = EmptyObject
    /\ selections = EmptyObject
    /\ configs = <<>>
    /\ alerted = NoAlert
    /\ workbook = NoWorkbook

Init ==
    /\ fileData \in FileDatas
    /\ columnSelections \in ColumnSelections
    /\ matrixConfig \in MatrixConfigs
    /\ pc = "ready"
    /\ result = NoResult
    /\ uiInitial

\* The call computeMatrices(fileData, selectedTabs, columnSelections, matrixConfig).
Compute ==
    /\ pc = "ready"
    /\ result' = computeMatrices(fileData, columnSelections, matrixConfig)
    /\ pc' = "done"
    /\ UNCHANGED <<fileData, columnSelections, matrixConfig, uiVars>>

Next == Compute

Spec == Init /\ [][Next]_vars

-----------------------------------------------------------------------------
(* What the specification says of a result, stated without the code *)

\* A raw value coerced to a string and trimmed; a missing cell is empty.
TrimmedValue(v) ==
    CASE v.t = "str" -> trim(v.s)
      [] v.t = "num" -> trim(NumToString(v.n))
      [] OTHER -> <<>>

IsHeader(c) == c \notin {Undefined, Null, ""}

Resolves(fd, source) ==
    /\ (source.fileIndex + 1) \in DOMAIN fd
    /\ \E sh \in Range(fd[source.fileIndex + 1].sheets) : sh.name = source.sheetName

SheetNamed(fd, source) ==
    CHOOSE sh \in Range(fd[source.fileIndex + 1].sheets) : sh.name = source.sheetName

SecondarySelected(cs, source) ==
    /\ selectionKey(source) \in DOMAIN cs
    /\ IsHeader(cs[selectionKey(source)].secondaryXAxis)

\* The rows a resolved source contributes, as (Y, X, secondary) triples of
\* trimmed values; s is NullString when no secondary column is selected.
SourceRows(fd, cs, source) ==
    LET sel == cs[selectionKey(source)]
    IN {[y |-> TrimmedValue(Get(row, sel.yAxis)),
         x |-> TrimmedValue(Get(row, sel.xAxis)),
         s |-> IF IsHeader(sel.secondaryXAxis)
               THEN TrimmedValue(Get(row, sel.secondaryXAxis))
               ELSE NullString,
         from |-> source] :
        row \in Range(SheetNamed(fd, source).data)}

ResolvedSources(fd, config) ==
    {source \in Range(config.sources) : Resolves(fd, source)}

ConfigRows(fd, cs, config) ==
    UNION {SourceRows(fd, cs, source) : source \in ResolvedSources(fd, config)}

SourceBase(source) == source.fileName \o Dash \o source.sheetName

\* The groups of rows matrices are built from, each with the matrix name it
\* is emitted under (before any secondary-value suffix).
SlotsOf(fd, cs, config) ==
    IF config.merge
    THEN {[base |-> config.name, rows |-> ConfigRows(fd, cs, config)]}
    ELSE {[base |-> SourceBase(source), rows |-> SourceRows(fd, cs, source)] :
            source \in ResolvedSources(fd, config)}

Slots == UNION {SlotsOf(fileData, columnSelections, c) : c \in Range(matrixConfig)}

Returned == pc = "done" /\ ~result.threw

Matrices == Range(result.matrices)

IsUnsplit(m, base) == m.name = base

IsSplit(m, base) ==
    /\ Len(m.name) > Len(base \o Dash)
    /\ SubSeq(m.name, 1, Len(base \o Dash)) = base \o Dash

SplitKey(m, base) == SubSeq(m.name, Len(base \o Dash) + 1, Len(m.name))

BuiltFrom(m, base) == IsUnsplit(m, base) \/ IsSplit(m, base)

Hit(m, slot, i, j) ==
    \E r \in slot.rows :
        /\ r.y = m.yAxis[i]
        /\ r.x = m.xAxis[j]
        /\ (IsSplit(m, slot.base) => r.s = SplitKey(m, slot.base))

\* C1: in every returned matrix, cell (i,j) is 1 iff some contributing row
\* has trimmed Y = yAxis[i] and trimmed X = xAxis[j] (and, in a matrix split
\* by secondary value s, trimmed secondary = s); otherwise it is 0.
C1_CellIffRow ==
    Returned =>
        \A m \in Matrices :
            /\ \E slot \in Slots : BuiltFrom(m, slot.base)
            /\ \A slot \in Slots :
                 BuiltFrom(m, slot.base) =>
                    \A i \in 1..Len(m.yAxis) : \A j \in 1..Len(m.xAxis) :
                        m.data[i][j] = IF Hit(m, slot, i, j) THEN 1 ELSE 0

\* C2: the axis labels are exactly the trimmed string forms of the raw
\* values of the column that are non-empty, numeric values such as 0 included.
C2_LabelsAreTrimmedValues ==
    Returned =>
        \A m \in Matrices : \A slot \in Slots :
            BuiltFrom(m, slot.base) =>
                /\ Range(m.yAxis) = {r.y : r \in slot.rows} \ {<<>>}
                /\ Range(m.xAxis) = {r.x : r \in slot.rows} \ {<<>>}

StrictlyAscending(axis) ==
    \A i \in 1..(Len(axis) - 1) : StrLess(axis[i], axis[i + 1])

\* C3: yAxis and xAxis of every returned matrix hold no empty string, no
\* duplicate, and are sorted ascending.
C3_AxesSortedDistinct ==
    Returned =>
        \A m \in Matrices :
            /\ <<>> \notin Range(m.yAxis) \cup Range(m.xAxis)
            /\ Cardinality(Range(m.yAxis)) = Len(m.yAxis)
            /\ Cardinality(Range(m.xAxis)) = Len(m.xAxis)
            /\ StrictlyAscending(m.yAxis)
            /\ StrictlyAscending(m.xAxis)

\* C3 witness: a returned matrix with two Y labels and one X label, built
\* from a sheet whose rows carry the Y labels in descending order and the
\* same X label twice.
C3_Witness ==
    /\ Returned
    /\ ~matrixConfig[1].merge
    /\ \E m \in Matrices : Len(m.yAxis) = 2 /\ Len(m.xAxis) = 1
    /\ \E f \in Range(fileData) : \E sh \in Range(f.sheets) :
          /\ Len(sh.data) = 2
          /\ TrimmedValue(sh.data[2].Y) # <<>>
          /\ StrLess(TrimmedValue(sh.data[2].Y), TrimmedValue(sh.data[1].Y))
          /\ TrimmedValue(sh.data[1].X) = TrimmedValue(sh.data[2].X)

\* C4: data has one row per yAxis label, each row one cell per xAxis label,
\* and every cell is 0 or 1.
C4_GridShape ==
    Returned =>
        \A m \in Matrices :
            /\ Len(m.data) = Len(m.yAxis)
            /\ \A i \in 1..Len(m.data) :
                  /\ Len(m.data[i]) = Len(m.xAxis)
                  /\ \A j \in 1..Len(m.data[i]) : m.data[i][j] \in {0, 1}

\* C4 witness: two rows of one sheet hit the same (Y, X) pair of a matrix,
\* and the cell is 1.
C4_Witness ==
    /\ Returned
    /\ \E m \in Matrices : \E slot \in Slots :
          /\ IsUnsplit(m, slot.base)
          /\ \E i \in 1..Len(m.yAxis) : \E j \in 1..Len(m.xAxis) :
                /\ m.data[i][j] = 1
                /\ \E f \in Range(fileData) : \E sh \in Range(f.sheets) :
                      /\ Len(sh.data) = 2
                      /\ TrimmedValue(sh.data[1].Y) = m.yAxis[i]
                      /\ TrimmedValue(sh.data[2].Y) = m.yAxis[i]
                      /\ TrimmedValue(sh.data[1].X) = m.xAxis[j]
                      /\ TrimmedValue(sh.data[2].X) = m.xAxis[j]

MergeSlot(config) ==
    [base |-> config.name, rows |-> ConfigRows(fileData, columnSelections, config)]

\* The axes a source yields on its own: those of its independent-mode matrix.
SourceAxes(source) == independentMatrices(fileData, columnSelections, source)[1]

\* C5: in merge mode with per-secondary-value matrices, every cell that is
\* 1 comes from a row of a source that has a secondary column selected; a
\* source without one sets no cell, though its labels are on the shared axes.
C5_NoSecondaryNoCell ==
    Returned =>
        \A config \in Range(matrixConfig) :
            config.merge =>
                LET rows == ConfigRows(fileData, columnSelections, config)
                    without == {s \in ResolvedSources(fileData, config) :
                                    ~SecondarySelected(columnSelections, s)}
                    axes == [s \in without |-> SourceAxes(s)]
                IN \A m \in Matrices :
                     IsSplit(m, config.name) =>
                        /\ \A i \in 1..Len(m.yAxis) : \A j \in 1..Len(m.xAxis) :
                              m.data[i][j] = 1 =>
                                  \E r \in rows :
                                      /\ SecondarySelected(columnSelections, r.from)
                                      /\ r.y = m.yAxis[i]
                                      /\ r.x = m.xAxis[j]
                                      /\ r.s = SplitKey(m, config.name)
                        /\ \A s \in without :
                              /\ Range(axes[s].yAxis) \subseteq Range(m.yAxis)
                              /\ Range(axes[s].xAxis) \subseteq Range(m.xAxis)

\* C5 witness: a per-secondary-value matrix of a merge whose axes carry the
\* Y and X labels of a row of a source without a secondary column, with the
\* cell of that row 0.
C5_Witness ==
    /\ Returned
    /\ \E config \in Range(matrixConfig) : \E m \in Matrices :
          /\ config.merge
          /\ IsSplit(m, config.name)
          /\ \E r \in ConfigRows(fileData, columnSelections, config) :
                /\ ~SecondarySelected(columnSelections, r.from)
                /\ \E i \in 1..Len(m.yAxis) : \E j \in 1..Len(m.xAxis) :
                      r.y = m.yAxis[i] /\ r.x = m.xAxis[j] /\ m.data[i][j] = 0

\* The secondary values of a set of rows: trimmed, non-empty.
SecondaryValues(rows) == {r.s : r \in rows} \ {<<>>, NullString}

\* The values of S in ascending order.
Ascending(S) ==
    CHOOSE q \in [1..Cardinality(S) -> S] :
        /\ Range(q) = S
        /\ StrictlyAscending(q)

\* The names one group of rows is emitted under: one per secondary value in
\* ascending order, or the bare name when there is none.
NamesOf(base, rows) ==
    IF SecondaryValues(rows) = {} THEN <<base>>
    ELSE [k \in 1..Cardinality(SecondaryValues(rows)) |->
            base \o Dash \o Ascending(SecondaryValues(rows))[k]]

ResultNames == [k \in 1..Len(result.matrices) |-> result.matrices[k].name]

\* The selections with every secondary axis set to "None".
WithoutSecondary(cs) == [k \in DOMAIN cs |-> [cs[k] EXCEPT !.secondaryXAxis = Null]]

\* C6: a merge spec emits one matrix "{name} - {s}" per secondary value s of
\* its sources, ascending, when a source has a secondary column and there is
\* such a value; otherwise exactly one matrix named name, whose cells ignore
\* the secondary column.
C6_MergeEmission ==
    (Returned /\ Len(matrixConfig) = 1 /\ matrixConfig[1].merge) =>
        LET config == matrixConfig[1]
            S == SecondaryValues(MergeSlot(config).rows)
        IN IF (\E source \in Range(config.sources) :
                   SecondarySelected(columnSelections, source)) /\ S # {}
           THEN ResultNames = NamesOf(config.name, MergeSlot(config).rows)
           ELSE /\ ResultNames = <<config.name>>
                /\ result = computeMatrices(fileData, WithoutSecondary(columnSelections),
                                            matrixConfig)

RECURSIVE IndependentNames(_)
IndependentNames(sources) ==
    IF sources = <<>> THEN <<>>
    ELSE (IF Resolves(fileData, Head(sources))
          THEN NamesOf(SourceBase(Head(sources)),
                       SourceRows(fileData, columnSelections, Head(sources)))
          ELSE <<>>)
         \o IndependentNames(Tail(sources))

\* C7: an independent spec emits, source by source in the order of its
\* sources, one matrix "{fileName} - {sheetName}" for a source without
\* secondary values and the matrices "{fileName} - {sheetName} - {s}" in
\* ascending order of s for a source with secondary values.
C7_IndependentEmission ==
    (Returned /\ Len(matrixConfig) = 1 /\ ~matrixConfig[1].merge) =>
        ResultNames = IndependentNames(matrixConfig[1].sources)

SwapRows(fd, f, sh, i, j) ==
    [fd EXCEPT ![f].sheets[sh].data =
        [k \in DOMAIN @ |-> IF k = i THEN @[j] ELSE IF k = j THEN @[i] ELSE @[k]]]

\* C9: exchanging any two rows of any sheet leaves the returned matrices
\* (names, axes and cells) unchanged.
C9_RowOrderIndependent ==
    Returned =>
        \A f \in DOMAIN fileData : \A sh \in DOMAIN fileData[f].sheets :
            \A i \in DOMAIN fileData[f].sheets[sh].data :
            \A j \in DOMAIN fileData[f].sheets[sh].data :
                i < j => computeMatrices(SwapRows(fileData, f, sh, i, j),
                                         columnSelections, matrixConfig) = result

\* C9 witness: a sheet whose two rows carry their secondary labels in
\* descending order has been turned into one matrix per label.
C9_Witness ==
    /\ Returned
    /\ Len(result.matrices) = 2
    /\ \E f \in Range(fileData) : \E sh \in Range(f.sheets) :
          /\ Len(sh.data) = 2
          /\ "S" \in DOMAIN sh.data[1]
          /\ cellValue(sh.data[2], "S") # <<>>
          /\ StrLess(cellValue(sh.data[2], "S"), cellValue(sh.data[1], "S"))
          /\ cellValue(sh.data[1], "Y") # <<>>
          /\ cellValue(sh.data[1], "X") # <<>>
          /\ \E m \in Matrices : \E i \in 1..Len(m.yAxis) : 1 \in Range(m.data[i])

RECURSIVE OnlyResolved(_)
OnlyResolved(sources) ==
    IF sources = <<>> THEN <<>>
    ELSE (IF Resolves(fileData, Head(sources)) THEN <<Head(sources)>> ELSE <<>>)
         \o OnlyResolved(Tail(sources))

\* The configuration with the sources that do not resolve left out.
WithoutUnresolved(mc) ==
    [c \in DOMAIN mc |-> [mc[c] EXCEPT !.sources = OnlyResolved(@)]]

\* C10: a source that does not resolve to a parsed sheet (no such sheet in
\* the file, or no file at that index) is skipped: the call does not throw
\* and returns what it returns without that source listed.
C10_UnresolvedSkipped ==
    pc = "done" =>
        /\ ~result.threw
        /\ result = computeMatrices(fileData, columnSelections,
                                    WithoutUnresolved(matrixConfig))

-----------------------------------------------------------------------------
(* Selections that name a column the rows of the sheet do not have *)

\* A header no sheet has.
AbsentColumn == "Q"

\* Rows of sheet A for these inputs.  Y is " a" or "b"; X is "x"; S is "0"
\* or " r".
RowsMissingA ==
    {[Y |-> y, X |-> Str(<<120>>), S |-> s] :
        y \in {Str(<<32, 97>>), Str(<<98>>)},
        s \in {Str(<<48>>), Str(<<32, 114>>)}}

MissingFileDatas ==
    UNION {{files(a, b) : a \in [1..ij[1] -> RowsMissingA], b \in [1..ij[2] -> RowsB]} :
           ij \in SplitsOfRows}

\* Selections of sheet A that may name the absent column on any axis, and
\* of sheet B that may name column S, which sheet B does not have.
MissingSelections ==
    {[k \in {selectionKey(src(0, SheetA)), selectionKey(src(0, SheetB))} |->
        IF k = selectionKey(src(0, SheetA))
        THEN [yAxis |-> y, xAxis |-> x, secondaryXAxis |-> s]
        ELSE [yAxis |-> "Y", xAxis |-> "X", secondaryXAxis |-> sb]] :
     y \in {"Y", AbsentColumn}, x \in {"X", AbsentColumn},
     s \in {Null, "S", AbsentColumn}, sb \in {Null, "S"}}

MissingConfigs ==
    {<<[name |-> MatrixName, merge |-> m, sources |-> sl]>> :
        m \in BOOLEAN,
        sl \in {<<src(0, SheetA)>>, <<src(0, SheetA), src(0, SheetB)>>}}

InitMissing ==
    /\ fileData \in MissingFileDatas
    /\ columnSelections \in MissingSelections
    /\ matrixConfig \in MissingConfigs
    /\ pc = "ready"
    /\ result = NoResult
    /\ uiInitial

SpecMissing == InitMissing /\ [][Next]_vars

\* The column is selected and no row of the sheet of the source has it.
ColumnAbsent(fd, source, col) ==
    /\ IsHeader(col)
    /\ \A row \in Range(SheetNamed(fd, source).data) : col \notin DOMAIN row

AllSources == UNION {Range(c.sources) : c \in Range(matrixConfig)}

\* The selections with "None" in place of every secondary column that the
\* sheet it is selected for does not have.
WithoutAbsentSecondary(fd, cs) ==
    [k \in DOMAIN cs |->
        IF \E source \in AllSources :
              /\ selectionKey(source) = k
              /\ Resolves(fd, source)
              /\ ColumnAbsent(fd, source, cs[k].secondaryXAxis)
        THEN [cs[k] EXCEPT !.secondaryXAxis = Null]
        ELSE cs[k]]

\* C11: when a selected Y, X or secondary column is absent from the rows of
\* a sheet, the call returns normally; every label of a returned matrix is
\* the trimmed value some row really has in a column of its sheet, every
\* cell that is 1 comes from a row that has both its Y and its X column, and
\* an absent secondary column yields what no secondary column yields.
C11_AbsentColumnIsEmpty ==
    pc = "done" =>
        /\ ~result.threw
        /\ result = computeMatrices(fileData,
                                    WithoutAbsentSecondary(fileData, columnSelections),
                                    matrixConfig)
        /\ \A m \in Matrices : \A slot \in Slots :
              BuiltFrom(m, slot.base) =>
                 LET has(r, axis) ==
                        ~ColumnAbsent(fileData, r.from,
                                      columnSelections[selectionKey(r.from)][axis])
                 IN /\ \A i \in 1..Len(m.yAxis) :
                          \E r \in slot.rows : has(r, "yAxis") /\ r.y = m.yAxis[i]
                    /\ \A j \in 1..Len(m.xAxis) :
                          \E r \in slot.rows : has(r, "xAxis") /\ r.x = m.xAxis[j]
                    /\ \A i \in 1..Len(m.yAxis) : \A j \in 1..Len(m.xAxis) :
                          m.data[i][j] = 1 =>
                             \E r \in slot.rows :
                                /\ has(r, "yAxis") /\ has(r, "xAxis")
                                /\ r.y = m.yAxis[i] /\ r.x = m.xAxis[j]
                    /\ IsSplit(m, slot.base) =>
                          \E r \in slot.rows :
                             has(r, "secondaryXAxis") /\ r.s = SplitKey(m, slot.base)

\* C11 witness: a merge in which sheet A, whose Y column and secondary
\* column are absent, has a row: the one matrix returned carries the X label
\* of that row and Y labels of the other sheet, and every cell under that X
\* label is 0.
C11_Witness ==
    /\ Returned
    /\ Len(result.matrices) = 1
    /\ \E config \in Range(matrixConfig) : \E source \in Range(config.sources) :
          LET sel == columnSelections[selectionKey(source)]
              m == result.matrices[1]
          IN /\ config.merge
             /\ SheetNamed(fileData, source).data # <<>>
             /\ ColumnAbsent(fileData, source, sel.yAxis)
             /\ ColumnAbsent(fileData, source, sel.secondaryXAxis)
             /\ ~ColumnAbsent(fileData, source, sel.xAxis)
             /\ Len(m.yAxis) > 0
             /\ \E j \in 1..Len(m.xAxis) :
                   /\ m.xAxis[j] = cellValue(SheetNamed(fileData, source).data[1], sel.xAxis)
                   /\ \A i \in 1..Len(m.yAxis) : m.data[i][j] = 0

-----------------------------------------------------------------------------
(* Whitespace around cell values *)

\* The raw value v written with a space before it and a tab after it.
Padded(v) ==
    Str(<<32>> \o (IF v.t = "num" THEN NumToString(v.n) ELSE v.s) \o <<9>>)

\* fileData with the cell under col of row i of sheet sh of file f padded.
PadCell(fd, f, sh, i, col) ==
    [fd EXCEPT ![f].sheets[sh].data[i][col] = Padded(@)]

\* C12: surrounding any one Y, X or secondary cell value with whitespace
\* leaves the returned matrices (names, axes and cells) unchanged.
C12_WhitespaceInsensitive ==
    Returned =>
        \A f \in DOMAIN fileData : \A sh \in DOMAIN fileData[f].sheets :
            \A i \in DOMAIN fileData[f].sheets[sh].data :
            \A col \in DOMAIN fileData[f].sheets[sh].data[i] :
                computeMatrices(PadCell(fileData, f, sh, i, col),
                                columnSelections, matrixConfig) = result

-----------------------------------------------------------------------------
(* The wizard: App and the component it shows at each step.  A component's *)
(* own state starts afresh when the step that shows it is entered.         *)

\* Object with key k set to v.
Put(obj, k, v) == [x \in DOMAIN obj \cup {k} |-> IF x = k THEN v ELSE obj[x]]

\* parseInt of a string of decimal digits.
RECURSIVE parseInt(_)
parseInt(s) ==
    IF Len(s) = 1 THEN s[1] - 48
    ELSE 10 * parseInt(SubSeq(s, 1, Len(s) - 1)) + (s[Len(s)] - 48)

\* Object.keys of an object keyed by file index: integer keys come in
\* ascending order.
objectKeys(obj) ==
    CHOOSE q \in [1..Cardinality(DOMAIN obj) -> DOMAIN obj] :
        /\ Range(q) = DOMAIN obj
        /\ \A i \in 1..(Len(q) - 1) : parseInt(q[i]) < parseInt(q[i + 1])

\* const [fileIndex, ...rest] = key.split('-'); rest.join('-')
firstDash(key) ==
    CHOOSE i \in DOMAIN key : key[i] = 45 /\ \A j \in 1..(i - 1) : key[j] # 45
keyFileIndex(key) ==
    IF 45 \in Range(key) THEN SubSeq(key, 1, firstDash(key) - 1) ELSE key
keySheetName(key) ==
    IF 45 \in Range(key) THEN SubSeq(key, firstDash(key) + 1, Len(key)) ELSE <<>>

\* `${fileIndex}-${sheetName}` for a file index that is a key of selectedTabs.
tabKey(fileIndex, sheetName) == fileIndex \o <<45>> \o sheetName

\* TabSelector.handleTabToggle on its own selectedTabs, an object kept as its
\* entries in insertion order: [key]: !prev[key]
handleTabToggle(prev, fileIndex, sheetName) ==
    LET key == tabKey(NumToString(fileIndex), sheetName)
    IN IF \E k \in DOMAIN prev : prev[k].key = key
       THEN [k \in DOMAIN prev |->
                IF prev[k].key = key THEN [prev[k] EXCEPT !.on = ~@] ELSE prev[k]]
       ELSE Append(prev, [key |-> key, on |-> TRUE])

\* The object `selected` that TabSelector.handleContinue builds.
RECURSIVE selectedOf(_, _)
selectedOf(chosen, entries) ==
    IF entries = <<>> THEN chosen
    ELSE LET key == Head(entries).key
             fileIndex == keyFileIndex(key)
             sheetName == keySheetName(key)
             tabs == IF fileIndex \in DOMAIN chosen THEN chosen[fileIndex] ELSE <<>>
         IN selectedOf(IF Head(entries).on
                       THEN Put(chosen, fileIndex, Append(tabs, sheetName))
                       ELSE chosen,
                       Tail(entries))

\* Object.values(selected).some(tabs => tabs.length > 0)
hasSelection(chosen) == \E k \in DOMAIN chosen : Len(chosen[k]) > 0

\* The (fileIndex, sheetName) pairs of selectedTabs in the order the nested
\* loops over it visit them.
RECURSIVE tabsOf(_, _)
tabsOf(fileIndex, sheetNames) ==
    IF sheetNames = <<>> THEN <<>>
    ELSE <<[fileIndex |-> fileIndex, sheetName |-> Head(sheetNames)]>>
         \o tabsOf(fileIndex, Tail(sheetNames))

RECURSIVE tabsOfKeys(_, _)
tabsOfKeys(keys, tabs) ==
    IF keys = <<>> THEN <<>>
    ELSE tabsOf(Head(keys), tabs[Head(keys)]) \o tabsOfKeys(Tail(keys), tabs)

selectedPairs(tabs) == tabsOfKeys(objectKeys(tabs), tabs)

\* A selection object without any field set.
noSelection == [yAxis |-> Undefined, xAxis |-> Undefined, secondaryXAxis |-> Undefined]

\* ColumnSelector.handleSelection: {...prev, [key]: {...prev[key], [field]: value}}
handleSelection(prev, key, field, value) ==
    Put(prev, key,
        [(IF key \in DOMAIN prev THEN prev[key] ELSE noSelection) EXCEPT ![field] = value])

\* Mutant: Continue hands over whatever has been selected.
selectionsUnchecked(tabs, sel) == TRUE

\* The test of ColumnSelector.handleContinue (and of isComplete): every
\* selected tab has a selection with a Y axis and an X axis.
selectionsComplete(tabs, sel) ==
    \A k \in DOMAIN selectedPairs(tabs) :
        LET key == tabKey(selectedPairs(tabs)[k].fileIndex, selectedPairs(tabs)[k].sheetName)
        IN /\ key \in DOMAIN sel
           /\ TruthyCol(sel[key].yAxis)
           /\ TruthyCol(sel[key].xAxis)

\* fileName.replace(/\.[^/.]+$/, ''): the last extension removed.
stripExtension(s) ==
    LET dots == {i \in DOMAIN s : s[i] = 46}
        last == CHOOSE i \in dots : \A j \in dots : j <= i
    IN IF dots # {} /\ last < Len(s) /\ \A j \in (last + 1)..Len(s) : s[j] # 47
       THEN SubSeq(s, 1, last - 1)
       ELSE s

\* The selected tabs that have an entry in columnSelections, as sources, in
\* the order of the nested loops over selectedTabs.
sourcesOf(fd, tabs, cs) ==
    LET pairs == selectedPairs(tabs)
        has(pair) == tabKey(pair.fileIndex, pair.sheetName) \in DOMAIN cs
        kept == SelectSeq(pairs, has)
    IN [k \in DOMAIN kept |->
           [fileIndex |-> parseInt(kept[k].fileIndex),
            sheetName |-> kept[k].sheetName,
            fileName |-> fd[parseInt(kept[k].fileIndex) + 1].fileName]]

\* !!columnSelections[key]?.secondaryXAxis
secondarySelected(cs, source) ==
    TruthyCol(selected(cs, selectionKey(source), "secondaryXAxis"))

\* The configs the effect of MatrixConfigurator sets when it is mounted.
initialConfigs(fd, tabs, cs) ==
    LET sources == sourcesOf(fd, tabs, cs)
    IN [k \in DOMAIN sources |->
           [name |-> stripExtension(sources[k].fileName) \o Dash \o sources[k].sheetName,
            sources |-> <<sources[k]>>,
            merge |-> FALSE,
            hasSecondaryX |-> secondarySelected(cs, sources[k])]]

\* The handlers of MatrixConfigurator; index, matrixIndex and sourceIndex
\* count from 1 here.
handleToggleMerge(prev, index) == [prev EXCEPT ![index].merge = ~@]

\* 'Matrix '
MatrixPrefix == <<77, 97, 116, 114, 105, 120, 32>>

handleAddMatrix(prev, fd, tabs, cs) ==
    LET availableSources == sourcesOf(fd, tabs, cs)
    IN IF Len(availableSources) = 0 THEN prev
       ELSE Append(prev,
                   [name |-> MatrixPrefix \o NumToString(Len(prev) + 1),
                    sources |-> <<availableSources[1]>>,
                    merge |-> FALSE,
                    hasSecondaryX |-> secondarySelected(cs, availableSources[1])])

\* array.filter((_, idx) => idx !== index)
without(array, index) ==
    [k \in 1..(Len(array) - 1) |-> IF k < index THEN array[k] ELSE array[k + 1]]

handleRemoveMatrix(prev, index) == without(prev, index)

\* An add-source that appends the first selected tab, listed already or not.
handleAddSourceUnchecked(prev, fd, tabs, cs, matrixIndex) ==
    LET availableSources == sourcesOf(fd, tabs, cs)
    IN IF Len(availableSources) > 0
       THEN [prev EXCEPT ![matrixIndex].sources = Append(@, availableSources[1])]
       ELSE prev

handleAddSource(prev, fd, tabs, cs, matrixIndex) ==
    LET currentConfig == prev[matrixIndex]
        exists(source) ==
            \E s \in Range(currentConfig.sources) :
                s.fileIndex = source.fileIndex /\ s.sheetName = source.sheetName
        fresh(source) == ~exists(source)
        availableSources == SelectSeq(sourcesOf(fd, tabs, cs), fresh)
    IN IF Len(availableSources) > 0
       THEN [prev EXCEPT
               ![matrixIndex].sources = Append(@, availableSources[1]),
               ![matrixIndex].hasSecondaryX =
                    secondarySelected(cs, availableSources[1]) \/ currentConfig.hasSecondaryX]
       ELSE prev

handleRemoveSource(prev, matrixIndex, sourceIndex) ==
    [prev EXCEPT ![matrixIndex].sources = without(@, sourceIndex)]

handleNameChange(prev, index, newName) == [prev EXCEPT ![index].name = newName]

\* The matrices list of the configurator holds at most MaxMatrices configs.
MaxMatrices == 2

\* The files the user may upload: a workbook "F.x" with the sheets A
\* (headers Y, X, S) and B (headers Y, X) of one row each, or a file the
\* library cannot read.
WizardFileName == <<70, 46, 120>>

WizardWorkbook ==
    [SheetNames |-> <<SheetA, SheetB>>,
     Sheets |-> (SheetA :> << <<"Y", "X", "S">>,
                              <<Str(<<32, 97>>), Str(<<120>>), Str(<<48>>)>> >>)
                @@ (SheetB :> << <<"Y", "X">>,
                                 <<Str(<<97>>), Str(<<122, 32>>)>> >>)]

WizardUploads ==
    { <<[name |-> WizardFileName, readable |-> TRUE, parsed |-> WizardWorkbook]>>,
      <<[name |-> WizardFileName, readable |-> FALSE, parsed |-> WizardWorkbook]>> }

\* The options picked in the selects of ColumnSelector.
PickedValues(field, headers) ==
    CASE field = "yAxis" -> {"Y", ""}
      [] field = "xAxis" -> {"X"}
      [] OTHER -> {"S"} \cap Range(headers)

\* The names typed into a matrix-name input: "Matrix 2".
TypedNames == {MatrixPrefix \o <<50>>}

\* new Date().toISOString() at the time of an export.
Clock == {<<50, 48, 50, 52, 45, 48, 49, 45, 48, 50, 84, 48, 51, 58, 48, 52, 58,
            48, 53, 46, 48, 48, 54, 90>>}

InitWizard ==
    /\ fileData = <<>>
    /\ columnSelections = EmptyObject
    /\ matrixConfig = <<>>
    /\ pc = "ready"
    /\ result = NoResult
    /\ uiInitial

\* FileUploader.handleUpload with the files chosen, and App.handleFilesUploaded.
Upload ==
    /\ step = 1
    /\ \E fs \in WizardUploads :
          LET processed == processFiles(fs)
          IN /\ uploadedFiles' = fs
             /\ IF processed.threw
                THEN /\ alerted' = "Error: Failed to process"
                     /\ UNCHANGED <<fileData, step>>
                ELSE /\ fileData' = processed.processedFiles
                     /\ step' = 2
                     /\ alerted' = NoAlert
    /\ toggles' = EmptyObject
    /\ UNCHANGED <<columnSelections, matrixConfig, pc, result, selectedTabs,
                   selections, configs, workbook>>

\* A click on a tab of TabSelector.
TabToggle ==
    /\ step = 2
    /\ \E f \in DOMAIN fileData : \E sh \in DOMAIN fileData[f].sheets :
          toggles' = handleTabToggle(toggles, f - 1, fileData[f].sheets[sh].name)
    /\ alerted' = NoAlert
    /\ UNCHANGED <<fileData, columnSelections, matrixConfig, pc, result, step,
                   uploadedFiles, selectedTabs, selections, configs, workbook>>

\* TabSelector.handleContinue and App.handleTabsSelected.  The handler is
\* taken in any state of step 2, though its button is disabled while no tab
\* is selected.
TabsContinue ==
    /\ step = 2
    /\ LET chosen == selectedOf(EmptyObject, toggles)
       IN IF ~hasSelection(chosen)
          THEN /\ alerted' = "Select at least one tab"
               /\ UNCHANGED <<selectedTabs, step, toggles>>
          ELSE /\ selectedTabs' = chosen
               /\ step' = 3
               /\ toggles' = EmptyObject
               /\ alerted' = NoAlert
    /\ UNCHANGED <<fileData, columnSelections, matrixConfig, pc, result,
                   uploadedFiles, selections, configs, workbook>>

\* onBack of TabSelector.
TabsBack ==
    /\ step = 2
    /\ step' = 1
    /\ toggles' = EmptyObject
    /\ alerted' = NoAlert
    /\ UNCHANGED <<fileData, columnSelections, matrixConfig, pc, result,
                   uploadedFiles, selectedTabs, selections, configs, workbook>>

\* A choice in one of the three selects of a card of ColumnSelector.
Select ==
    /\ step = 3
    /\ \E pair \in Range(selectedPairs(selectedTabs)) :
       \E sheet \in Range(fileData[parseInt(pair.fileIndex) + 1].sheets) :
       \E field \in {"yAxis", "xAxis", "secondaryXAxis"} :
       \E value \in PickedValues(field, sheet.headers) :
          /\ sheet.name = pair.sheetName
          /\ selections' = handleSelection(selections,
                                           tabKey(pair.fileIndex, pair.sheetName),
                                           field, value)
    /\ alerted' = NoAlert
    /\ UNCHANGED <<fileData, columnSelections, matrixConfig, pc, result, step,
                   uploadedFiles, toggles, selectedTabs, configs, workbook>>

\* ColumnSelector.handleContinue and App.handleColumnsSelected; step 4 mounts
\* MatrixConfigurator, whose effect sets the initial configs.  The handler is
\* taken in any state of step 3, though its button is disabled while
\* isComplete() is false.
ColumnsContinue ==
    /\ step = 3
    /\ IF ~selectionsComplete(selectedTabs, selections)
       THEN /\ alerted' = "Select Y axis and X axis for all tabs"
            /\ UNCHANGED <<columnSelections, step, selections, configs>>
       ELSE /\ columnSelections' = selections
            /\ step' = 4
            /\ configs' = initialConfigs(fileData, selectedTabs, selections)
            /\ selections' = EmptyObject
            /\ alerted' = NoAlert
    /\ UNCHANGED <<fileData, matrixConfig, pc, result, uploadedFiles, toggles,
                   selectedTabs, workbook>>

\* onBack of ColumnSelector.
ColumnsBack ==
    /\ step = 3
    /\ step' = 2
    /\ selections' = EmptyObject
    /\ alerted' = NoAlert
    /\ UNCHANGED <<fileData, columnSelections, matrixConfig, pc, result,
                   uploadedFiles, toggles, selectedTabs, configs, workbook>>

configuratorFrame ==
    /\ alerted' = NoAlert
    /\ UNCHANGED <<fileData, columnSelections, matrixConfig, pc, result, step,
                   uploadedFiles, toggles, selectedTabs, selections, workbook>>

\* The checkbox "Merge sources" of a matrix card.
ToggleMerge ==
    /\ step = 4
    /\ \E index \in DOMAIN configs : configs' = handleToggleMerge(configs, index)
    /\ configuratorFrame

\* The button "+ Add new matrix".
AddMatrix ==
    /\ step = 4
    /\ Len(configs) < MaxMatrices
    /\ configs' = handleAddMatrix(configs, fileData, selectedTabs, columnSelections)
    /\ configuratorFrame

\* The button "Remove" of a matrix card, rendered while configs.length > 1.
RemoveMatrix ==
    /\ step = 4
    /\ Len(configs) > 1
    /\ \E index \in DOMAIN configs : configs' = handleRemoveMatrix(configs, index)
    /\ configuratorFrame

\* The button "+ Add source" of a matrix card.
AddSource ==
    /\ step = 4
    /\ \E matrixIndex \in DOMAIN configs :
          configs' = handleAddSource(configs, fileData, selectedTabs,
                                     columnSelections, matrixIndex)
    /\ configuratorFrame

\* The button "x" of a source, rendered while config.sources.length > 1.
RemoveSource ==
    /\ step = 4
    /\ \E matrixIndex \in DOMAIN configs :
          /\ Len(configs[matrixIndex].sources) > 1
          /\ \E sourceIndex \in DOMAIN configs[matrixIndex].sources :
                configs' = handleRemoveSource(configs, matrixIndex, sourceIndex)
    /\ configuratorFrame

\* Typing into the name input of a matrix card.
Rename ==
    /\ step = 4
    /\ \E index \in DOMAIN configs : \E newName \in TypedNames :
          configs' = handleNameChange(configs, index, newName)
    /\ configuratorFrame

\* MatrixConfigurator.handleContinue and App.handleMatrixConfig.
ConfigContinue ==
    /\ step = 4
    /\ IF Len(configs) = 0
       THEN /\ alerted' = "Add at least one matrix"
            /\ UNCHANGED <<matrixConfig, result, pc, step, configs>>
       ELSE IF \E config \in Range(configs) : Len(config.sources) = 0
       THEN /\ alerted' = "Each matrix needs at least one source"
            /\ UNCHANGED <<matrixConfig, result, pc, step, configs>>
       ELSE LET computed == computeMatrices(fileData, columnSelections, configs)
            IN /\ matrixConfig' = configs
               /\ IF computed.threw
                  THEN /\ alerted' = "Error"
                       /\ UNCHANGED <<result, pc, step, configs>>
                  ELSE /\ result' = computed
                       /\ pc' = "done"
                       /\ step' = 5
                       /\ configs' = <<>>
                       /\ alerted' = NoAlert
    /\ UNCHANGED <<fileData, columnSelections, uploadedFiles, toggles,
                   selectedTabs, selections, workbook>>

\* onBack of MatrixConfigurator.
ConfigBack ==
    /\ step = 4
    /\ step' = 3
    /\ configs' = <<>>
    /\ selections' = EmptyObject
    /\ alerted' = NoAlert
    /\ UNCHANGED <<fileData, columnSelections, matrixConfig, pc, result,
                   uploadedFiles, toggles, selectedTabs, workbook>>

\* App.handleExport, the button "Download Excel" of step 5.
Export ==
    /\ step = 5
    /\ \E now \in Clock : \E libraryThrows \in BOOLEAN :
          LET out == exportToExcel(result.matrices, now, libraryThrows)
          IN IF out.threw
             THEN /\ alerted' = "Export error"
                  /\ UNCHANGED workbook
             ELSE /\ alerted' = NoAlert
                  /\ workbook' = [written |-> TRUE, filename |-> out.filename,
                                  sheets |-> out.sheets]
    /\ result' = [result EXCEPT !.matrices = matricesAfterExport(@)]
    /\ UNCHANGED <<fileData, columnSelections, matrixConfig, pc, step,
                   uploadedFiles, toggles, selectedTabs, selections, configs>>

\* App.resetApp, the button "Start Over" of step 5.
Reset ==
    /\ step = 5
    /\ step' = 1
    /\ uploadedFiles' = <<>>
    /\ fileData' = <<>>
    /\ selectedTabs' = EmptyObject
    /\ columnSelections' = EmptyObject
    /\ matrixConfig' = <<>>
    /\ result' = NoResult
    /\ pc' = "ready"
    /\ alerted' = NoAlert
    /\ workbook' = NoWorkbook
    /\ UNCHANGED <<toggles, selections, configs>>

NextWizard ==
    \/ Upload
    \/ TabToggle
    \/ TabsContinue
    \/ TabsBack
    \/ Select
    \/ ColumnsContinue
    \/ ColumnsBack
    \/ ToggleMerge
    \/ AddMatrix
    \/ RemoveMatrix
    \/ AddSource
    \/ RemoveSource
    \/ Rename
    \/ ConfigContinue
    \/ ConfigBack
    \/ Export
    \/ Reset

SpecWizard == InitWizard /\ [][NextWizard]_vars

-----------------------------------------------------------------------------
(* Claims about the wizard *)

\* Every selected (file, sheet) has a Y-axis and an X-axis column in cs, and
\* every config of mc has a source.
Validated(tabs, cs, mc) ==
    /\ \A f \in DOMAIN tabs : \A k \in DOMAIN tabs[f] :
          LET key == f \o <<45>> \o tabs[f][k]
          IN /\ key \in DOMAIN cs
             /\ IsHeader(cs[key].yAxis)
             /\ IsHeader(cs[key].xAxis)
    /\ \A c \in Range(mc) : Len(c.sources) >= 1

\* The selections being made at step 3 leave a selected tab without Y or X.
ColumnCheckFails == ~Validated(selectedTabs, selections, <<>>)

\* The configs being edited at step 4 are none, or one of them has no source.
ConfigCheckFails == configs = <<>> \/ ~Validated(EmptyObject, EmptyObject, configs)

NothingComputed == UNCHANGED <<matrixConfig, result, pc>>

\* C13: every step of the wizard that calls computeMatrices (the step from
\* step 4 that sets matrixConfig) calls it with every selected (file, sheet)
\* having a Y and an X column selected and every config having a source; a
\* step taken while a check fails neither advances the wizard nor computes,
\* and the alert of a check is shown only when that check fails, by a step
\* that stays on the same step of the wizard and computes nothing.
C13_ComputeOnlyValidated ==
    [][ /\ (step = 4 /\ matrixConfig' # matrixConfig) =>
              Validated(selectedTabs, columnSelections, matrixConfig')
        /\ (step' = 5 /\ step # 5) =>
              /\ pc' = "done"
              /\ Validated(selectedTabs', columnSelections', matrixConfig')
        /\ (step = 3 /\ ColumnCheckFails) => (step' # 4 /\ NothingComputed)
        /\ (step = 4 /\ ConfigCheckFails) => (step' # 5 /\ NothingComputed)
        /\ alerted' = "Select Y axis and X axis for all tabs" =>
              (step = 3 /\ ColumnCheckFails)
        /\ alerted' \in {"Add at least one matrix",
                         "Each matrix needs at least one source"} =>
              (step = 4 /\ ConfigCheckFails)
        /\ alerted' \in {"Select Y axis and X axis for all tabs",
                         "Add at least one matrix",
                         "Each matrix needs at least one source"} =>
              (step' = step /\ NothingComputed)
      ]_vars

\* C13 witness: the wizard has computed and shows step 5, after two tabs
\* were selected, one of them with a secondary column, and two configs edited.
C13_Witness ==
    /\ step = 5
    /\ pc = "done"
    /\ Len(result.matrices) > 2
    /\ Len(matrixConfig) = 2
    /\ \E c \in Range(matrixConfig) : Len(c.sources) = 2 /\ c.merge
    /\ Cardinality(DOMAIN columnSelections) = 2

-----------------------------------------------------------------------------
(* exportToExcel on its own: any matrices, shown at step 5 *)

\* The matrices handed to exportToExcel number at most MaxExported.
MaxExported == 2

\* A name of exactly the length of a sheet name at its limit.
NameAtLimit == [k \in 1..SheetNameLimit |-> 97]

\* Matrix names: short, at the limit, and two longer ones that agree on
\* their first SheetNameLimit characters.
ExportNames ==
    {MatrixName, NameAtLimit, NameAtLimit \o <<98>>, NameAtLimit \o <<99, 100>>}

ExportMatrices ==
    {[name |-> n, yAxis |-> <<>>, xAxis |-> <<>>, data |-> <<>>] : n \in ExportNames}
    \cup
    {[name |-> n, yAxis |-> <<>>, xAxis |-> <<<<120>>>>, data |-> <<>>] :
        n \in ExportNames}
    \cup
    {[name |-> n, yAxis |-> <<<<97>>, <<98>>>>, xAxis |-> <<<<120>>, <<122>>>>,
      data |-> <<<<c, 0>>, <<1, c>>>>] : n \in ExportNames, c \in {0, 1}}

InitExport ==
    /\ fileData = <<>>
    /\ columnSelections = EmptyObject
    /\ matrixConfig = <<>>
    /\ pc = "done"
    /\ \E n \in 0..MaxExported : \E ms \in [1..n -> ExportMatrices] :
          result = [threw |-> FALSE, matrices |-> ms]
    /\ step = 5
    /\ uploadedFiles = <<>>
    /\ toggles = EmptyObject
    /\ selectedTabs = EmptyObject
    /\ selections = EmptyObject
    /\ configs = <<>>
    /\ alerted = NoAlert
    /\ workbook = NoWorkbook

NextExport == Export

SpecExport == InitExport /\ [][NextExport]_vars

\* The first n characters of s.
FirstChars(s, n) == [k \in 1..(IF Len(s) < n THEN Len(s) ELSE n) |-> s[k]]

C15_FailedExportKeepsResult ==
    [][ (step = 5 /\ step' = 5) =>
            /\ result' = result
            /\ pc' = pc
            /\ alerted' = "Export error" => workbook' = workbook
            /\ (alerted = "Export error" /\ alerted' = NoAlert) =>
                  /\ workbook'.written
                  /\ Len(workbook'.sheets) = Len(result.matrices)
                  /\ \A k \in DOMAIN result.matrices :
                        Len(workbook'.sheets[k].rows) = Len(result.matrices[k].yAxis) + 1
      ]_vars

\* C15 witness: at step 5, with matrices computed and a file written before,
\* the last export failed.
C15_Witness ==
    /\ step = 5
    /\ alerted = "Export error"
    /\ workbook.written
    /\ Len(result.matrices) = 2
    /\ \E k \in DOMAIN result.matrices : Len(result.matrices[k].yAxis) > 0

-----------------------------------------------------------------------------
(* processFiles on its own: any uploaded files *)

\* The arrays sheet_to_json gives for a sheet number at most MaxParsedRows,
\* the header row included; the files of an upload at most MaxFiles.
MaxParsedRows == 2
MaxFiles == 2

\* "d.csv" and "Sheet1"
CsvFileName == <<100, 46, 99, 115, 118>>
SheetOne == <<83, 104, 101, 101, 116, 49>>

ParsedRows == {<<Str(<<97>>), Num(0)>>, <<Str(<<98>>), Str(<<120>>)>>}

\* What sheet_to_json may give for a sheet: nothing, or a header row and rows.
ParsedSheets ==
    {<<>>} \cup
    UNION {{<< <<"Y", "X">> >> \o rows : rows \in [1..n -> ParsedRows]} :
           n \in 0..(MaxParsedRows - 1)}

\* What the library may give for a CSV file: one sheet, under the name the
\* library chooses for it.
CsvWorkbooks ==
    {[SheetNames |-> <<n>>, Sheets |-> (n :> json)] :
        n \in {SheetOne, CsvFileName}, json \in ParsedSheets}

ExcelWorkbooks ==
    {[SheetNames |-> <<>>, Sheets |-> <<>>],
     [SheetNames |-> <<SheetA, SheetB>>,
      Sheets |-> (SheetA :> << <<"Y", "X">>, <<Str(<<97>>), Num(0)>> >>)
                 @@ (SheetB :> <<>>)]}

UploadedFiles ==
    {[name |-> CsvFileName, readable |-> TRUE, parsed |-> w] : w \in CsvWorkbooks}
    \cup
    {[name |-> CsvFileName, readable |-> FALSE,
      parsed |-> [SheetNames |-> <<>>, Sheets |-> <<>>]]}
    \cup
    {[name |-> WizardFileName, readable |-> TRUE, parsed |-> w] : w \in ExcelWorkbooks}

InitIngest ==
    /\ \E n \in 1..MaxFiles : uploadedFiles \in [1..n -> UploadedFiles]
    /\ fileData = <<>>
    /\ columnSelections = EmptyObject
    /\ matrixConfig = <<>>
    /\ pc = "ready"
    /\ result = NoResult
    /\ step = 1
    /\ toggles = EmptyObject
    /\ selectedTabs = EmptyObject
    /\ selections = EmptyObject
    /\ configs = <<>>
    /\ alerted = NoAlert
    /\ workbook = NoWorkbook

\* The call processFiles(files).
ProcessFiles ==
    /\ pc = "ready"
    /\ LET processed == processFiles(uploadedFiles)
       IN /\ fileData' = processed.processedFiles
          /\ pc' = IF processed.threw THEN "threw" ELSE "done"
    /\ UNCHANGED <<columnSelections, matrixConfig, result, uiVars>>

NextIngest == ProcessFiles

SpecIngest == InitIngest /\ [][NextIngest]_vars

\* C16: every CSV file processed yields exactly one sheet record, and that
\* sheet record is named after the file (by its name, with or without the
\* extension).
C16_CsvOneSheetNamedAfterFile ==
    pc = "done" =>
        \A i \in DOMAIN uploadedFiles :
            endsWith(uploadedFiles[i].name, CsvSuffix) =>
                /\ Len(fileData[i].sheets) = 1
                /\ fileData[i].sheets[1].name \in
                      {uploadedFiles[i].name, stripExtension(uploadedFiles[i].name)}

-----------------------------------------------------------------------------
(* Claims that compare calls of computeMatrices *)

\* The matrices an independent source is split into, one per secondary value.
SplitMatrices(source) == {m \in Matrices : IsSplit(m, SourceBase(source))}

\* The one matrix the source yields with its secondary column deselected.
UnsplitMatrix(source) ==
    independentMatrices(fileData, WithoutSecondary(columnSelections), source)[1]

\* C17: for an independent source split by its secondary column, a row with
\* an empty secondary value sets no cell, yet its Y and X labels are on the
\* axes of every matrix of the source; the cellwise OR of the matrices of the
\* source is the Y/X matrix of the rows with a non-empty secondary value; and
\* each of those matrices is cellwise at most the unsplit matrix of the
\* source, on the same axes.
C17_SplitPartitionsCells ==
    Returned =>
        \A config \in Range(matrixConfig) :
            ~config.merge =>
                \A source \in ResolvedSources(fileData, config) :
                    LET rows == SourceRows(fileData, columnSelections, source)
                        full == UnsplitMatrix(source)
                        split == SplitMatrices(source)
                    IN \A m \in split :
                          /\ m.yAxis = full.yAxis
                          /\ m.xAxis = full.xAxis
                          /\ \A r \in rows :
                                r.s = <<>> =>
                                   /\ r.y # <<>> => r.y \in Range(m.yAxis)
                                   /\ r.x # <<>> => r.x \in Range(m.xAxis)
                          /\ \A i \in 1..Len(m.yAxis) : \A j \in 1..Len(m.xAxis) :
                                /\ m.data[i][j] <= full.data[i][j]
                                /\ m.data[i][j] = 1 =>
                                      \E r \in rows :
                                          /\ r.s # <<>>
                                          /\ r.y = m.yAxis[i]
                                          /\ r.x = m.xAxis[j]
                                /\ (\E n \in split : n.data[i][j] = 1)
                                      <=> (\E r \in rows :
                                              /\ r.s # <<>>
                                              /\ r.y = m.yAxis[i]
                                              /\ r.x = m.xAxis[j])

-----------------------------------------------------------------------------
(* The spec name in independent mode *)

\* Names a spec may be given instead of its own: the empty name, another
\* letter, and a name shaped like a generated one ("F - A - 0").
OtherNames == {<<>>, <<90>>, <<70>> \o Dash \o <<65>> \o Dash \o <<48>>}

\* C18: in independent mode the output does not depend on the spec's name:
\* the call with an independent spec renamed returns what the call returned
\* (or throws as it threw); every matrix of an independent spec is named
\* "{fileName} - {sheetName}" of one of its sources, alone or followed by
\* " - " and a secondary value of that source's rows; every matrix of a
\* merge spec is named after the spec, alone or followed by " - " and a
\* secondary value.
C18_IndependentIgnoresName ==
    pc = "done" =>
        \A i \in 1..Len(matrixConfig) :
            LET config == matrixConfig[i]
                pushed == configMatrices(fileData, columnSelections, config)
            IN IF config.merge
               THEN Returned => \A k \in 1..Len(pushed) : BuiltFrom(pushed[k], config.name)
               ELSE /\ \A n \in OtherNames :
                        computeMatrices(fileData, columnSelections,
                                        handleNameChange(matrixConfig, i, n)) = result
                    /\ Returned =>
                         \A k \in 1..Len(pushed) :
                            \E source \in ResolvedSources(fileData, config) :
                                LET rows == SourceRows(fileData, columnSelections, source)
                                IN \/ IsUnsplit(pushed[k], SourceBase(source))
                                   \/ /\ IsSplit(pushed[k], SourceBase(source))
                                      /\ SplitKey(pushed[k], SourceBase(source))
                                            \in SecondaryValues(rows)

\* An independent spec named "N" has returned matrices, one of them named
\* after a secondary value, next to a merge spec named "M".
C18_Witness ==
    /\ Returned
    /\ \E i \in 1..Len(matrixConfig) :
          /\ ~matrixConfig[i].merge
          /\ matrixConfig[i].name = <<78>>
          /\ \E m \in Range(configMatrices(fileData, columnSelections, matrixConfig[i])) :
                \E source \in ResolvedSources(fileData, matrixConfig[i]) :
                    IsSplit(m, SourceBase(source))
    /\ \E i \in 1..Len(matrixConfig) : matrixConfig[i].merge

-----------------------------------------------------------------------------
(* Merge mode against independent mode on one source *)

\* The entries of a config's source list that resolve to a sheet.
ResolvingEntries(fd, config) ==
    {i \in 1..Len(config.sources) : Resolves(fd, config.sources[i])}

\* A matrix without its name.
Unnamed(m) == [yAxis |-> m.yAxis, xAxis |-> m.xAxis, data |-> m.data]

\* C19: for a spec with exactly one source that resolves to a sheet, the
\* matrices pushed in its own mode and those pushed with the merge flag
\* flipped are equally many and, position by position, have the same yAxis,
\* xAxis and cells; the names differ only in their base, the spec's name in
\* merge mode and "{fileName} - {sheetName}" in independent mode, with the
\* same secondary-value suffix.
C19_MergeEqualsIndependentOnOneSource ==
    Returned =>
        \A c \in 1..Len(matrixConfig) :
            LET config == matrixConfig[c]
                entries == ResolvingEntries(fileData, config)
                merged == mergedMatrices(fileData, columnSelections, config)
                independent == independentSources(fileData, columnSelections, config.sources)
            IN Cardinality(entries) = 1 =>
                 LET source == config.sources[CHOOSE i \in entries : TRUE]
                 IN /\ configMatrices(fileData, columnSelections, config)
                          = IF config.merge THEN merged ELSE independent
                    /\ Len(merged) = Len(independent)
                    /\ \A k \in 1..Len(merged) :
                          /\ Unnamed(merged[k]) = Unnamed(independent[k])
                          /\ \/ /\ IsUnsplit(merged[k], config.name)
                                /\ IsUnsplit(independent[k], SourceBase(source))
                             \/ /\ IsSplit(merged[k], config.name)
                                /\ IsSplit(independent[k], SourceBase(source))
                                /\ SplitKey(merged[k], config.name)
                                      = SplitKey(independent[k], SourceBase(source))

\* A spec with exactly one resolving source has returned two or more
\* matrices, one per secondary value, with a cell set.
C19_Witness ==
    /\ Returned
    /\ \E c \in 1..Len(matrixConfig) :
          LET config == matrixConfig[c]
              pushed == configMatrices(fileData, columnSelections, config)
          IN /\ Cardinality(ResolvingEntries(fileData, config)) = 1
             /\ Len(pushed) >= 2
             /\ \E k \in 1..Len(pushed) :
                   \E i \in 1..Len(pushed[k].data) :
                      \E j \in 1..Len(pushed[k].data[i]) : pushed[k].data[i][j] = 1

-----------------------------------------------------------------------------
(* The configurator's list of matrices *)

\* Two entries of a source list name the same sheet of the same file.
SameSource(a, b) == a.fileIndex = b.fileIndex /\ a.sheetName = b.sheetName

\* C20: while the configurator is shown, after any sequence of add matrix,
\* remove matrix, add source, remove source, toggle merge and rename from the
\* initial one-config-per-selected-sheet list: the list of configs is
\* non-empty, every config has at least one source, and no config lists the
\* same (fileIndex, sheetName) twice.
C20_ConfigsWellFormed ==
    step = 4 =>
        /\ Len(configs) >= 1
        /\ \A c \in 1..Len(configs) :
              /\ Len(configs[c].sources) >= 1
              /\ \A a, b \in 1..Len(configs[c].sources) :
                    SameSource(configs[c].sources[a], configs[c].sources[b]) => a = b

\* The configurator shows a list that is no longer the initial one: two
\* matrices, one of them merging two different sheets, another with one.
C20_Witness ==
    /\ step = 4
    /\ configs # initialConfigs(fileData, selectedTabs, columnSelections)
    /\ Len(configs) = 2
    /\ \E c \in 1..Len(configs) : Len(configs[c].sources) = 2 /\ configs[c].merge
    /\ \E c \in 1..Len(configs) : Len(configs[c].sources) = 1

====
